---- MODULE Spec2Model ----
(***************************************************************************)
(* The in-memory item store of api-of-life (src/src/main.py): one ordered  *)
(* dictionary items_db and the handlers that read and mutate it.           *)
(*                                                                         *)
(* Representation of Python values:                                        *)
(*   - a value of an Optional type is None == <<>> or Some(v) == <<v>>;    *)
(*   - a str is the sequence of its character codes ("Ab" is <<65, 98>>);  *)
(*   - a list is a sequence; a dict with a fixed key set is a record, and  *)
(*     items_db, whose keys come and go, is the sequence of its            *)
(*     (key, value) entries in insertion order, as a Python dict keeps it; *)
(*   - a JSON request body is the function from the keys it names to       *)
(*     their values (null is None).                                        *)
(* Request validation belongs to the framework, so handlers receive        *)
(* well-typed bodies only.                                                 *)
(***************************************************************************)
EXTENDS Integers, Sequences, FiniteSets, TLC

VARIABLES
    items_db,   \* main.py:21, the store
    issued,     \* the ids uuid4() has returned so far
    clock,      \* the latest value datetime.now() has returned, in ticks
    request,    \* the request handled last
    response,   \* the response to it
    running,    \* per worker thread, the handler it is in the middle of
    served      \* the number of requests the worker threads have taken

vars == <<request, response, items_db, issued, clock, running, served>>

----------------------------------------------------------------------------
(* Bounds *)

\* uuid4() draws from MaxIds ids
MaxIds == 2
\* datetime.now() returns ticks 0 .. MaxClock
MaxClock == 1

Ids == 1 .. MaxIds

----------------------------------------------------------------------------
(* Python values *)

None == <<>>
Some(v) == <<v>>

RECURSIVE StrLeqStrict(_, _)
StrLeqStrict(a, b) ==
    IF b = <<>> THEN FALSE
    ELSE IF a = <<>> THEN TRUE
    ELSE IF a[1] # b[1] THEN a[1] < b[1]
    ELSE StrLeqStrict(Tail(a), Tail(b))

\* str.__le__: code-point lexicographic order, a proper prefix is smaller
RECURSIVE StrLeq(_, _)
StrLeq(a, b) ==
    IF a = <<>> THEN TRUE
    ELSE IF b = <<>> THEN FALSE
    ELSE IF a[1] # b[1] THEN a[1] < b[1]
    ELSE StrLeq(Tail(a), Tail(b))

StrLess(a, b) == StrLeq(a, b) /\ a # b

Digit(d) == 48 + d

\* datetime.isoformat() of tick t, scaled to two ticks a second: the date, the
\* hours and the minutes are a constant prefix and left out, seconds are two
\* zero-padded digits, and the fraction ("." and its digits) is omitted when
\* it is zero
IsoFormat(t) ==
    LET sec == t \div 2
        frac == t % 2
    IN  <<Digit(sec \div 10), Digit(sec % 10)>>
            \o (IF frac = 0 THEN <<>> ELSE <<46, Digit(frac)>>)

----------------------------------------------------------------------------
(* dict operations on items_db *)

Keys(d) == {d[i].key : i \in 1 .. Len(d)}

\* item_id in items_db
HasKey(d, k) == \E i \in 1 .. Len(d) : d[i].key = k

\* items_db[item_id]
Lookup(d, k) == d[CHOOSE i \in 1 .. Len(d) : d[i].key = k].val

DictSetMovesToEnd(d, k, v) ==
    Append(SelectSeq(d, LAMBDA e : e.key # k), [key |-> k, val |-> v])

\* items_db[k] = v: a new key is appended, an old key keeps its position
DictSet(d, k, v) ==
    IF HasKey(d, k)
    THEN [i \in 1 .. Len(d) |-> IF d[i].key = k THEN [key |-> k, val |-> v] ELSE d[i]]
    ELSE Append(d, [key |-> k, val |-> v])

DictDelAll(d, k) == <<>>

\* del items_db[k]
DictDel(d, k) == SelectSeq(d, LAMBDA e : e.key # k)

\* list(items_db.values())
Values(d) == [i \in 1 .. Len(d) |-> d[i].val]

----------------------------------------------------------------------------
(* Request models *)

BodyFields == {"name", "description", "notes", "tags", "active", "priority"}

Field(json, f, default) == IF f \in DOMAIN json THEN json[f] ELSE default

\* class ItemCreate: the model built from a body, defaults for missing keys
ItemCreate(json) ==
    [name        |-> json.name,
     description |-> Field(json, "description", None),
     notes       |-> Field(json, "notes", None),
     tags        |-> Field(json, "tags", None),
     active      |-> Field(json, "active", Some(TRUE)),
     priority    |-> Field(json, "priority", Some(0))]

\* class ItemPatch: every field defaults to None
ItemPatch(json) == [f \in BodyFields |-> Field(json, f, None)]

ModelDumpAll(item) == item

ModelDumpDropsFalsy(item) ==
    [f \in {g \in DOMAIN item :
               /\ item[g] # None
               /\ g = "active" => item[g] # Some(FALSE)
               /\ g = "priority" => item[g] # Some(0)} |-> item[f]]

\* item.model_dump(exclude_none=True)
ModelDump(item) == [f \in {g \in DOMAIN item : item[g] # None} |-> item[f]]

----------------------------------------------------------------------------
(* Records the handlers build *)

FreshIdsReused(used) == Ids

\* uuid4(): an id never returned before. Ids are only ever compared for
\* equality, so which unused id comes next is immaterial: the least one
FreshIds(used) == {i \in Ids \ used : \A j \in Ids \ used : i <= j}

NewItemStoresNull(item_id, item, now) ==
    [id          |-> item_id,
     name        |-> item.name,
     description |-> item.description,
     notes       |-> item.notes,
     tags        |-> item.tags,
     active      |-> item.active,
     priority    |-> item.priority,
     created_at  |-> IsoFormat(now),
     updated_at  |-> IsoFormat(now)]

\* create_item: new_item
NewItem(item_id, item, now) ==
    [id          |-> item_id,
     name        |-> item.name,
     description |-> item.description,
     notes       |-> item.notes,
     tags        |-> item.tags,
     active      |-> IF item.active # None THEN item.active ELSE Some(TRUE),
     priority    |-> IF item.priority # None THEN item.priority ELSE Some(0),
     created_at  |-> IsoFormat(now),
     updated_at  |-> IsoFormat(now)]

UpdatedRecordMerge(old, item, now) ==
    [old EXCEPT
        !.name        = item.name,
        !.description = IF item.description # None THEN item.description ELSE @,
        !.notes       = IF item.notes # None THEN item.notes ELSE @,
        !.tags        = IF item.tags # None THEN item.tags ELSE @,
        !.active      = IF item.active # None THEN item.active ELSE Some(TRUE),
        !.priority    = IF item.priority # None THEN item.priority ELSE Some(0),
        !.updated_at  = IsoFormat(now)]

UpdatedRecordTouchesCreated(old, item, now) ==
    [old EXCEPT
        !.name        = item.name,
        !.description = item.description,
        !.notes       = item.notes,
        !.tags        = item.tags,
        !.active      = IF item.active # None THEN item.active ELSE Some(TRUE),
        !.priority    = IF item.priority # None THEN item.priority ELSE Some(0),
        !.created_at  = IsoFormat(now)]

\* update_item: the seven assignments to items_db[item_id]
UpdatedRecord(old, item, now) ==
    [old EXCEPT
        !.name        = item.name,
        !.description = item.description,
        !.notes       = item.notes,
        !.tags        = item.tags,
        !.active      = IF item.active # None THEN item.active ELSE Some(TRUE),
        !.priority    = IF item.priority # None THEN item.priority ELSE Some(0),
        !.updated_at  = IsoFormat(now)]

\* dict.update(updates)
DictUpdate(rec, updates) ==
    [f \in DOMAIN rec |-> IF f \in DOMAIN updates THEN updates[f] ELSE rec[f]]

PatchAppliesAlways(updates) == TRUE

\* patch_item: `if updates:`, a dict is true when it is not empty
PatchApplies(updates) == DOMAIN updates # {}

PatchedRecordNoRefresh(old, updates, now) == DictUpdate(old, updates)

\* patch_item: the record after update(updates) and the updated_at refresh
PatchedRecord(old, updates, now) ==
    [DictUpdate(old, updates) EXCEPT !.updated_at = IsoFormat(now)]

DuplicatedItemKeepsId(source, new_id, now) ==
    [source EXCEPT !.created_at = IsoFormat(now), !.updated_at = IsoFormat(now)]

DuplicatedItemKeepsUpdated(source, new_id, now) ==
    [source EXCEPT !.id = new_id, !.created_at = IsoFormat(now)]

DuplicatedItemResetsActive(source, new_id, now) ==
    [source EXCEPT !.id = new_id, !.active = Some(TRUE),
                   !.created_at = IsoFormat(now), !.updated_at = IsoFormat(now)]

\* duplicate_item: new_item
DuplicatedItem(source, new_id, now) ==
    [source EXCEPT !.id = new_id,
                   !.created_at = IsoFormat(now),
                   !.updated_at = IsoFormat(now)]

DeletedCountAfter(d) == 0

\* delete_all_items: count = len(items_db), taken before the clear
DeletedCount(d) == Len(d)

NotFoundAsBadRequest == [status |-> 400, body |-> [detail |-> "Item not found"]]

\* HTTPException(status_code=404, detail="Item not found")
NotFound == [status |-> 404, body |-> [detail |-> "Item not found"]]

----------------------------------------------------------------------------
(* list_items: the query pipeline *)

\* a str, a list or None as a condition: None and the empty value are false
Truthy(x) == x # None /\ x[1] # <<>>

\* str.lower() on ASCII
Lower(s) == [i \in 1 .. Len(s) |-> IF s[i] >= 65 /\ s[i] <= 90 THEN s[i] + 32 ELSE s[i]]

\* needle in hay, for strings
Contains(needle, hay) ==
    \E i \in 1 .. (Len(hay) + 1) :
        /\ i + Len(needle) - 1 <= Len(hay)
        /\ SubSeq(hay, i, i + Len(needle) - 1) = needle

\* the characters str.strip() removes
Whitespace == {9, 10, 11, 12, 13, 28, 29, 30, 31, 32}

RECURSIVE LStrip(_)
LStrip(s) == IF s # <<>> /\ s[1] \in Whitespace THEN LStrip(Tail(s)) ELSE s

RECURSIVE RStrip(_)
RStrip(s) ==
    IF s # <<>> /\ s[Len(s)] \in Whitespace THEN RStrip(SubSeq(s, 1, Len(s) - 1)) ELSE s

\* str.strip()
Strip(s) == RStrip(LStrip(s))

\* str.split(","): one more piece than there are commas
RECURSIVE Split(_)
Split(s) ==
    IF \A i \in 1 .. Len(s) : s[i] # 44 THEN <<s>>
    ELSE LET c == CHOOSE i \in 1 .. Len(s) :
                      s[i] = 44 /\ \A j \in 1 .. (i - 1) : s[j] # 44
         IN  <<SubSeq(s, 1, c - 1)>> \o Split(SubSeq(s, c + 1, Len(s)))

\* tag in item["tags"], for a list
InList(x, l) == \E i \in 1 .. Len(l) : l[i] = x

SearchMatchesCaseSensitive(item, search_lower) ==
    \/ Contains(search_lower, item.name[1])
    \/ Truthy(item.description) /\ Contains(search_lower, item.description[1])
    \/ Truthy(item.notes) /\ Contains(search_lower, item.notes[1])

\* the search predicate of one item
SearchMatches(item, search_lower) ==
    \/ Contains(search_lower, Lower(item.name[1]))
    \/ Truthy(item.description) /\ Contains(search_lower, Lower(item.description[1]))
    \/ Truthy(item.notes) /\ Contains(search_lower, Lower(item.notes[1]))

SortKeyDefaultsName(sort_by) ==
    IF sort_by # None /\ sort_by[1] \in {"name", "created_at", "updated_at", "priority"}
    THEN sort_by[1] ELSE "name"

\* x[sort_key]
SortKey(sort_by) ==
    IF sort_by # None /\ sort_by[1] \in {"name", "created_at", "updated_at", "priority"}
    THEN sort_by[1] ELSE "created_at"

KeyLessCreatedAsUpdated(x, y, sort_key) ==
    CASE sort_key = "priority" -> x.priority[1] < y.priority[1]
      [] sort_key = "name" -> StrLess(x.name[1], y.name[1])
      [] OTHER -> StrLess(x.updated_at, y.updated_at)

\* the order of two sort keys: priority is an int, the others are strings
KeyLess(x, y, sort_key) ==
    CASE sort_key = "priority" -> x.priority[1] < y.priority[1]
      [] sort_key = "name" -> StrLess(x.name[1], y.name[1])
      [] sort_key = "created_at" -> StrLess(x.created_at, y.created_at)
      [] OTHER -> StrLess(x.updated_at, y.updated_at)

BeforeTiesReversed(x, y, sort_key, reverse) ==
    IF reverse THEN ~KeyLess(x, y, sort_key) ELSE KeyLess(x, y, sort_key)

\* x goes before y: with reverse=True the greater key goes first
Before(x, y, sort_key, reverse) ==
    IF reverse THEN KeyLess(y, x, sort_key) ELSE KeyLess(x, y, sort_key)

\* x put into the sorted s, behind every element it does not go before
Insert(x, s, sort_key, reverse) ==
    LET first == {j \in 1 .. Len(s) : Before(x, s[j], sort_key, reverse)}
        at == IF first = {} THEN Len(s) + 1
              ELSE CHOOSE j \in first : \A k \in first : j <= k
    IN  SubSeq(s, 1, at - 1) \o <<x>> \o SubSeq(s, at, Len(s))

\* sorted(items, key=..., reverse=...): stable, also when reversed
RECURSIVE Sorted(_, _, _)
Sorted(items, sort_key, reverse) ==
    IF items = <<>> THEN <<>>
    ELSE Insert(items[Len(items)],
                Sorted(SubSeq(items, 1, Len(items) - 1), sort_key, reverse),
                sort_key, reverse)

\* items[offset:]
SliceFrom(items, offset) ==
    LET n == Len(items)
        start == IF offset < 0 THEN (IF n + offset < 0 THEN 0 ELSE n + offset)
                 ELSE (IF offset > n THEN n ELSE offset)
    IN  SubSeq(items, start + 1, n)

SliceToInclusive(items, limit) ==
    LET n == Len(items)
        stop == IF limit < 0 THEN (IF n + limit < 0 THEN 0 ELSE n + limit)
                ELSE (IF limit + 1 > n THEN n ELSE limit + 1)
    IN  SubSeq(items, 1, stop)

\* items[:limit]
SliceTo(items, limit) ==
    LET n == Len(items)
        stop == IF limit < 0 THEN (IF n + limit < 0 THEN 0 ELSE n + limit)
                ELSE (IF limit > n THEN n ELSE limit)
    IN  SubSeq(items, 1, stop)

\* the filters before the tag filter
AfterDates(d, q) ==
    LET s0 == Values(d)
        s1 == IF Truthy(q.search)
              THEN SelectSeq(s0, LAMBDA item : SearchMatches(item, Lower(q.search[1])))
              ELSE s0
        s2 == IF Truthy(q.created_after)
              THEN SelectSeq(s1, LAMBDA item : StrLeq(q.created_after[1], item.created_at))
              ELSE s1
    IN  IF Truthy(q.created_before)
        THEN SelectSeq(s2, LAMBDA item : StrLeq(item.created_at, q.created_before[1]))
        ELSE s2

\* `tag in item.get("tags", [])` raises TypeError when the stored tags are None:
\* the key is there, so the default is not used
TagFilterRaises(d, q) ==
    /\ Truthy(q.tags)
    /\ \E i \in 1 .. Len(AfterDates(d, q)) : AfterDates(d, q)[i].tags = None

\* the stages from the tag filter on
FromTags(items, q) ==
    LET tag_list == [i \in 1 .. Len(Split(q.tags[1])) |-> Strip(Split(q.tags[1])[i])]
        s4 == IF Truthy(q.tags)
              THEN SelectSeq(items, LAMBDA item :
                       \E i \in 1 .. Len(tag_list) : InList(tag_list[i], item.tags[1]))
              ELSE items
        s5 == IF q.active # None
              THEN SelectSeq(s4, LAMBDA item : item.active = q.active)
              ELSE s4
        s6 == IF q.priority # None
              THEN SelectSeq(s5, LAMBDA item : item.priority = q.priority)
              ELSE s5
        s7 == IF q.min_priority # None
              THEN SelectSeq(s6, LAMBDA item : item.priority[1] >= q.min_priority[1])
              ELSE s6
        s8 == IF q.max_priority # None
              THEN SelectSeq(s7, LAMBDA item : item.priority[1] <= q.max_priority[1])
              ELSE s7
        s9 == IF q.sort # None /\ q.sort[1] \in {"asc", "desc"}
              THEN Sorted(s8, SortKey(q.sort_by), q.sort[1] = "desc")
              ELSE s8
        s10 == IF q.offset # None THEN SliceFrom(s9, q.offset[1]) ELSE s9
    IN  IF q.limit # None THEN SliceTo(s10, q.limit[1]) ELSE s10

ListResultZeroAbsent(d, q) ==
    FromTags(AfterDates(d, q),
             [q EXCEPT !.priority = IF @ = Some(0) THEN None ELSE @,
                       !.min_priority = IF @ = Some(0) THEN None ELSE @,
                       !.max_priority = IF @ = Some(0) THEN None ELSE @])

\* list_items: the sequence it returns when no stage raises
ListResult(d, q) == FromTags(AfterDates(d, q), q)

----------------------------------------------------------------------------
(* Request bodies the clients send *)

\* bodies of POST /items and PUT /items/{id}: "Ab" alone; every field given;
\* the optional fields given as null
CreateBodies ==
    { [name |-> Some(<<65, 98>>)],
      [name |-> Some(<<98>>), description |-> Some(<<97, 66>>),
       notes |-> Some(<<99>>), tags |-> Some(<< <<119>>, <<117>> >>),
       active |-> Some(FALSE), priority |-> Some(1)],
      [name |-> Some(<<65, 98>>), description |-> None, notes |-> None,
       tags |-> None, active |-> None, priority |-> None] }

\* bodies of PATCH /items/{id}: no key; values, the falsy False and 0 among
\* them, next to a null
PatchBodies ==
    { [f \in {} |-> None],
      [name |-> Some(<<98>>), description |-> Some(<<97, 66>>), tags |-> None,
       active |-> Some(FALSE), priority |-> Some(0)] }

\* a query with no parameter
NoQuery ==
    [search |-> None, limit |-> None, sort |-> None, sort_by |-> None,
     created_after |-> None, created_before |-> None, tags |-> None,
     offset |-> None, active |-> None, priority |-> None,
     min_priority |-> None, max_priority |-> None]

\* queries of GET /items: none; ?search=A&sort=desc&sort_by=priority&limit=1;
\* ?tags=w, u&offset=0
Queries ==
    { NoQuery,
      [NoQuery EXCEPT !.search = Some(<<65>>), !.sort = Some("desc"),
                      !.sort_by = Some("priority"), !.limit = Some(1)],
      [NoQuery EXCEPT !.tags = Some(<<119, 44, 32, 117>>), !.offset = Some(0)] }

----------------------------------------------------------------------------
(* Handlers in flight *)

\* sync handlers run in worker threads: MaxThreads of them at a time
MaxThreads == 2
\* requests served by the threads of one run
MaxRequests == 3

Threads == 1 .. MaxThreads

\* a thread that runs no handler.  A running one holds the request, pc, the
\* line of main.py it executes next, and the local it has computed
Idle == [op |-> "none", id |-> 0, body |-> None, pc |-> 0, local |-> None]

----------------------------------------------------------------------------
(* Handlers *)

Init ==
    /\ items_db = <<>>
    /\ issued = {}
    /\ clock = 0
    /\ request = [op |-> "none", id |-> 0, body |-> None]
    /\ response = [status |-> 0, body |-> None]
    /\ running = [t \in Threads |-> Idle]
    /\ served = 0

\* GET /items
ListItems(q) ==
    /\ UNCHANGED <<running, served>>
    /\ request' = [op |-> "list", id |-> 0, body |-> q]
    /\ response' = IF TagFilterRaises(items_db, q)
                   THEN [status |-> 500, body |-> None]
                   ELSE [status |-> 200, body |-> ListResult(items_db, q)]
    /\ UNCHANGED <<items_db, issued, clock>>

\* POST /items
CreateItem(json) ==
    /\ UNCHANGED <<running, served>>
    /\ \E item_id \in FreshIds(issued), now \in clock .. MaxClock :
        LET new_item == NewItem(item_id, ItemCreate(json), now) IN
        /\ request' = [op |-> "create", id |-> 0, body |-> json]
        /\ issued' = issued \cup {item_id}
        /\ clock' = now
        /\ items_db' = DictSet(items_db, item_id, new_item)
        /\ response' = [status |-> 201, body |-> new_item]

\* GET /items/count
GetItemsCount ==
    /\ UNCHANGED <<running, served>>
    /\ request' = [op |-> "count", id |-> 0, body |-> None]
    /\ response' = [status |-> 200, body |-> [count |-> Len(items_db)]]
    /\ UNCHANGED <<items_db, issued, clock>>

\* DELETE /items
DeleteAllItems ==
    /\ UNCHANGED <<running, served>>
    /\ request' = [op |-> "delete_all", id |-> 0, body |-> None]
    /\ items_db' = <<>>
    /\ response' = [status |-> 200, body |-> [deleted |-> DeletedCount(items_db)]]
    /\ UNCHANGED <<issued, clock>>

\* GET /items/{item_id}
GetItem(item_id) ==
    /\ UNCHANGED <<running, served>>
    /\ request' = [op |-> "get", id |-> item_id, body |-> None]
    /\ response' = IF ~HasKey(items_db, item_id) THEN NotFound
                   ELSE [status |-> 200, body |-> Lookup(items_db, item_id)]
    /\ UNCHANGED <<items_db, issued, clock>>

\* PUT /items/{item_id}
UpdateItem(item_id, json) ==
    /\ UNCHANGED <<running, served>>
    /\ request' = [op |-> "put", id |-> item_id, body |-> json]
    /\ IF ~HasKey(items_db, item_id)
       THEN /\ response' = NotFound
            /\ UNCHANGED <<items_db, issued, clock>>
       ELSE \E now \in clock .. MaxClock :
            LET rec == UpdatedRecord(Lookup(items_db, item_id), ItemCreate(json), now) IN
            /\ clock' = now
            /\ items_db' = DictSet(items_db, item_id, rec)
            /\ response' = [status |-> 200, body |-> rec]
            /\ UNCHANGED issued

\* PATCH /items/{item_id}
PatchItem(item_id, json) ==
    /\ UNCHANGED <<running, served>>
    /\ request' = [op |-> "patch", id |-> item_id, body |-> json]
    /\ IF ~HasKey(items_db, item_id)
       THEN /\ response' = NotFound
            /\ UNCHANGED <<items_db, issued, clock>>
       ELSE LET updates == ModelDump(ItemPatch(json)) IN
            IF PatchApplies(updates)
            THEN \E now \in clock .. MaxClock :
                 LET rec == PatchedRecord(Lookup(items_db, item_id), updates, now) IN
                 /\ clock' = now
                 /\ items_db' = DictSet(items_db, item_id, rec)
                 /\ response' = [status |-> 200, body |-> rec]
                 /\ UNCHANGED issued
            ELSE /\ response' = [status |-> 200, body |-> Lookup(items_db, item_id)]
                 /\ UNCHANGED <<items_db, issued, clock>>

\* POST /items/{item_id}/duplicate
DuplicateItem(item_id) ==
    /\ UNCHANGED <<running, served>>
    /\ request' = [op |-> "duplicate", id |-> item_id, body |-> None]
    /\ IF ~HasKey(items_db, item_id)
       THEN /\ response' = NotFound
            /\ UNCHANGED <<items_db, issued, clock>>
       ELSE \E new_id \in FreshIds(issued), now \in clock .. MaxClock :
            LET new_item == DuplicatedItem(Lookup(items_db, item_id), new_id, now) IN
            /\ issued' = issued \cup {new_id}
            /\ clock' = now
            /\ items_db' = DictSet(items_db, new_item.id, new_item)
            /\ response' = [status |-> 201, body |-> new_item]

\* DELETE /items/{item_id}
DeleteItem(item_id) ==
    /\ UNCHANGED <<running, served>>
    /\ request' = [op |-> "delete", id |-> item_id, body |-> None]
    /\ IF ~HasKey(items_db, item_id)
       THEN /\ response' = NotFound
            /\ UNCHANGED <<items_db, issued, clock>>
       ELSE /\ items_db' = DictDel(items_db, item_id)
            /\ response' = [status |-> 204, body |-> None]
            /\ UNCHANGED <<issued, clock>>

Next ==
    \/ \E q \in Queries : ListItems(q)
    \/ \E json \in CreateBodies : CreateItem(json)
    \/ GetItemsCount
    \/ DeleteAllItems
    \/ \E item_id \in Ids : GetItem(item_id)
    \/ \E item_id \in Ids, json \in CreateBodies : UpdateItem(item_id, json)
    \/ \E item_id \in Ids, json \in PatchBodies : PatchItem(item_id, json)
    \/ \E item_id \in Ids : DuplicateItem(item_id)
    \/ \E item_id \in Ids : DeleteItem(item_id)

Spec == Init /\ [][Next]_vars

----------------------------------------------------------------------------
(* list_items on its own: a store of up to MaxItems items and one query *)

\* the store holds at most MaxItems items when it is listed
MaxItems == 3

\* items as POST /items and a later PUT of the same body leave them: the
\* body, the tick of the POST and the tick of the PUT.  Names "Ab", "b",
\* "aB", "c", "B"; tags None, ["w", "u"], [], ["u"], ["x"]
ListShapes ==
    << [body |-> [name |-> Some(<<65, 98>>)], created |-> 0, updated |-> 2],
       [body |-> [name |-> Some(<<98>>), description |-> Some(<<97, 66>>),
                  notes |-> Some(<<99>>), tags |-> Some(<< <<119>>, <<117>> >>),
                  active |-> Some(FALSE), priority |-> Some(1)],
        created |-> 0, updated |-> 0],
       [body |-> [name |-> Some(<<97, 66>>), description |-> Some(<<>>),
                  tags |-> Some(<<>>), priority |-> Some(1)],
        created |-> 1, updated |-> 1],
       [body |-> [name |-> Some(<<99>>), notes |-> Some(<<66, 97>>),
                  tags |-> Some(<< <<117>> >>), active |-> None],
        created |-> 1, updated |-> 3],
       [body |-> [name |-> Some(<<66>>), description |-> Some(<<99>>),
                  tags |-> Some(<< <<120>> >>), priority |-> Some(2)],
        created |-> 2, updated |-> 2] >>

\* the stored record of a shape
ShapeItem(item_id, shape) ==
    [NewItem(item_id, ItemCreate(shape.body), shape.created)
        EXCEPT !.updated_at = IsoFormat(shape.updated)]

\* the stores of n different shapes, in creation order, with ids 1 .. n
StoresOf(n) ==
    { [i \in 1 .. n |-> [key |-> i, val |-> ShapeItem(i, ListShapes[pick[i]])]] :
        pick \in { f \in [1 .. n -> 1 .. Len(ListShapes)] :
                     \A i, j \in 1 .. n :
                        i < j => /\ f[i] # f[j]
                                 /\ ListShapes[f[i]].created <= ListShapes[f[j]].created } }

ListStores == UNION {StoresOf(n) : n \in 0 .. MaxItems}

\* ?search= : "", "a", "AB", "C", "x"
SearchQueries ==
    { [NoQuery EXCEPT !.search = Some(term)] :
        term \in {<<>>, <<97>>, <<65, 66>>, <<67>>, <<120>>} }

\* ?tags= : "", "w", "w, u", " x ,z"
TagQueries ==
    { [NoQuery EXCEPT !.tags = Some(names)] :
        names \in {<<>>, <<119>>, <<119, 44, 32, 117>>, <<32, 120, 32, 44, 122>>} }

\* ?sort=&sort_by=&offset=&limit=&active=
SortPageQueries ==
    { [NoQuery EXCEPT !.sort = s, !.sort_by = b, !.offset = o, !.limit = l, !.active = a] :
        s \in {None, Some("asc"), Some("desc"), Some("up")},
        b \in {None, Some("name"), Some("created_at"), Some("updated_at"),
               Some("priority"), Some("id")},
        o \in {None, Some(-1), Some(0), Some(1), Some(2)},
        l \in {None, Some(-1), Some(0), Some(1), Some(2)},
        a \in {None, Some(TRUE)} }

\* ?priority=&min_priority=&max_priority=
PriorityQueries ==
    { [NoQuery EXCEPT !.priority = p, !.min_priority = lo, !.max_priority = hi] :
        p \in {None, Some(0), Some(1)},
        lo \in {None, Some(0), Some(1), Some(2)},
        hi \in {None, Some(0), Some(1)} }

\* ?created_after=&created_before= : "", and the created_at of ticks 0, 1, 2
DateQueries ==
    { [NoQuery EXCEPT !.created_after = a, !.created_before = b] :
        a, b \in {None, Some(<<>>)} \cup {Some(IsoFormat(t)) : t \in 0 .. 2} }

ListQueries ==
    SearchQueries \cup TagQueries \cup SortPageQueries \cup PriorityQueries \cup DateQueries

InitList ==
    /\ items_db \in ListStores
    /\ issued = Keys(items_db)
    /\ clock = CHOOSE t \in 0 .. 3 :
                   \A i \in 1 .. Len(ListShapes) : ListShapes[i].updated <= t
    /\ request = [op |-> "none", id |-> 0, body |-> None]
    /\ response = [status |-> 0, body |-> None]
    /\ running = [t \in Threads |-> Idle]
    /\ served = 0

\* one GET /items on the store: list_items changes nothing, so a second
\* call would meet the same store
ListOnce == request.op = "none" /\ \E q \in ListQueries : ListItems(q)

NextList == ListOnce

SpecList == InitList /\ [][NextList]_vars

----------------------------------------------------------------------------
(* One writing request on a store of up to MaxIds items, and one list     *)
(* after it: more request bodies than Spec sends                          *)

\* the bodies the stored items were created with: "Ab" alone; every field
\* given, the tag list ["w", "u", "w"] and active false; active left out
StoredBodies ==
    { [name |-> Some(<<65, 98>>)],
      [name |-> Some(<<98>>), description |-> Some(<<97, 66>>),
       notes |-> Some(<<99>>), tags |-> Some(<< <<119>>, <<117>>, <<119>> >>),
       active |-> Some(FALSE), priority |-> Some(1)],
      [name |-> Some(<<99>>), description |-> Some(<<97, 66>>),
       tags |-> Some(<< <<117>> >>), priority |-> Some(1)] }

\* bodies of POST and PUT: those, the optional fields given as null, and
\* the name ""
EditBodies ==
    StoredBodies \cup
    { [name |-> Some(<<65, 98>>), description |-> None, notes |-> None,
       tags |-> None, active |-> None, priority |-> None],
      [name |-> Some(<<>>)] }

\* bodies of PATCH: nulls only (three fields, all six fields); active false;
\* priority 0; a null next to a value; the name ""
EditPatches ==
    { [description |-> None, notes |-> None, tags |-> None],
      [name |-> None, description |-> None, notes |-> None,
       tags |-> None, active |-> None, priority |-> None],
      [active |-> Some(FALSE)],
      [priority |-> Some(0)],
      [description |-> None, priority |-> Some(0)],
      [name |-> Some(<<>>)] }

\* queries without the sort stage: none; sort_by alone; a sort that is
\* neither asc nor desc
EditQueries ==
    { NoQuery,
      [NoQuery EXCEPT !.sort_by = Some("name")],
      [NoQuery EXCEPT !.sort = Some("up"), !.sort_by = Some("priority")],
      [NoQuery EXCEPT !.sort = Some("ASC")] }

\* the stores of n items created at tick 0, with ids 1 .. n
EditStores ==
    UNION { { [i \in 1 .. n |-> [key |-> i, val |-> NewItem(i, ItemCreate(pick[i]), 0)]] :
                pick \in [1 .. n -> StoredBodies] } : n \in 0 .. MaxIds }

InitEdit ==
    /\ items_db \in EditStores
    /\ issued = Keys(items_db)
    /\ clock = 0
    /\ request = [op |-> "none", id |-> 0, body |-> None]
    /\ response = [status |-> 0, body |-> None]
    /\ running = [t \in Threads |-> Idle]
    /\ served = 0

\* no request has been handled yet
Fresh == request.op = "none"

NextEdit ==
    \/ Fresh /\ \E json \in EditBodies : CreateItem(json)
    \/ Fresh /\ \E item_id \in Ids, json \in EditBodies : UpdateItem(item_id, json)
    \/ Fresh /\ \E item_id \in Ids, json \in EditPatches : PatchItem(item_id, json)
    \/ Fresh /\ \E item_id \in Ids : DuplicateItem(item_id)
    \/ ~Fresh /\ request.op # "list" /\ \E q \in EditQueries : ListItems(q)

SpecEdit == InitEdit /\ [][NextEdit]_vars

----------------------------------------------------------------------------
(* The handlers run by worker threads.  The handlers are plain `def`        *)
(* functions, which the framework runs in a thread pool, and main.py takes  *)
(* no lock: threads interleave between the statements of a handler.  A      *)
(* step is one statement (a few statements that touch the store once are    *)
(* taken together), pc is the line executed next.                           *)

\* the requests the threads take
ConcRequests ==
    {[op |-> "list", id |-> 0, body |-> q] : q \in Queries}
    \cup {[op |-> "create", id |-> 0, body |-> json] : json \in CreateBodies}
    \cup {[op |-> o, id |-> 0, body |-> None] : o \in {"count", "delete_all"}}
    \cup {[op |-> o, id |-> i, body |-> None] : o \in {"get", "duplicate", "delete"}, i \in Ids}
    \cup {[op |-> "put", id |-> i, body |-> json] : i \in Ids, json \in CreateBodies}
    \cup {[op |-> "patch", id |-> i, body |-> json] : i \in Ids, json \in PatchBodies}

\* the first line of each handler's body
FirstLine(op) ==
    CASE op = "list" -> 63
      [] op = "create" -> 97
      [] op = "count" -> 117
      [] op = "delete_all" -> 123
      [] op = "get" -> 131
      [] op = "put" -> 139
      [] op = "patch" -> 154
      [] op = "duplicate" -> 166
      [] op = "delete" -> 178

\* an unhandled exception: the framework answers 500
ServerError == [status |-> 500, body |-> None]

\* thread t goes on at line
Goto(t, line) == running' = [running EXCEPT ![t].pc = line]

\* the handler of thread t ends with the answer
Respond(t, answer) ==
    /\ request' = [op |-> running[t].op, id |-> running[t].id, body |-> running[t].body]
    /\ response' = answer
    /\ running' = [running EXCEPT ![t] = Idle]

\* a free thread takes a request
Begin(t, req) ==
    /\ running[t] = Idle
    /\ served < MaxRequests
    /\ served' = served + 1
    /\ running' = [running EXCEPT ![t] =
           [op |-> req.op, id |-> req.id, body |-> req.body,
            pc |-> FirstLine(req.op), local |-> None]]
    /\ UNCHANGED <<request, response, items_db, issued, clock>>

\* lines 63-91, list_items
ListRun(t) ==
    /\ running[t].pc = 63
    /\ Respond(t, IF TagFilterRaises(items_db, running[t].body) THEN ServerError
                  ELSE [status |-> 200, body |-> ListResult(items_db, running[t].body)])
    /\ UNCHANGED <<items_db, issued, clock, served>>

\* lines 97-111, create_item
CreateRun(t) ==
    /\ running[t].pc = 97
    /\ \E item_id \in FreshIds(issued), now \in clock .. MaxClock :
        LET new_item == NewItem(item_id, ItemCreate(running[t].body), now) IN
        /\ issued' = issued \cup {item_id}
        /\ clock' = now
        /\ items_db' = DictSet(items_db, item_id, new_item)
        /\ Respond(t, [status |-> 201, body |-> new_item])
    /\ UNCHANGED served

\* line 117, get_items_count
CountRun(t) ==
    /\ running[t].pc = 117
    /\ Respond(t, [status |-> 200, body |-> [count |-> Len(items_db)]])
    /\ UNCHANGED <<items_db, issued, clock, served>>

\* lines 123-125, delete_all_items
DeleteAllRun(t) ==
    /\ running[t].pc = 123
    /\ items_db' = <<>>
    /\ Respond(t, [status |-> 200, body |-> [deleted |-> DeletedCount(items_db)]])
    /\ UNCHANGED <<issued, clock, served>>

\* lines 131-132, 139-140, 154-155, 166-167, 178-179: `if item_id not in
\* items_db: raise HTTPException(404)`
ExistenceCheck(t) ==
    /\ running[t].pc \in {131, 139, 154, 166, 178}
    /\ IF ~HasKey(items_db, running[t].id)
       THEN Respond(t, NotFound)
       ELSE Goto(t, running[t].pc + 2) /\ UNCHANGED <<request, response>>
    /\ UNCHANGED <<items_db, issued, clock, served>>

\* items_db[item_id] of thread t raises KeyError
KeyError(t) == ~HasKey(items_db, running[t].id)

\* line 133, get_item: return items_db[item_id]
GetReturn(t) ==
    /\ running[t].pc = 133
    /\ Respond(t, IF KeyError(t) THEN ServerError
                  ELSE [status |-> 200, body |-> Lookup(items_db, running[t].id)])
    /\ UNCHANGED <<items_db, issued, clock, served>>

\* the field the PUT statement at line assigns
PutField(line) ==
    CASE line = 141 -> "name"
      [] line = 142 -> "description"
      [] line = 143 -> "notes"
      [] line = 144 -> "tags"
      [] line = 145 -> "active"
      [] line = 146 -> "priority"

\* lines 141-146, update_item: items_db[item_id][field] = ...
PutAssign(t) ==
    /\ running[t].pc \in 141 .. 146
    /\ IF KeyError(t)
       THEN Respond(t, ServerError) /\ UNCHANGED items_db
       ELSE LET field == PutField(running[t].pc)
                old == Lookup(items_db, running[t].id)
                new == UpdatedRecord(old, ItemCreate(running[t].body), 0)
            IN  /\ items_db' = DictSet(items_db, running[t].id,
                                       [old EXCEPT ![field] = new[field]])
                /\ Goto(t, running[t].pc + 1)
                /\ UNCHANGED <<request, response>>
    /\ UNCHANGED <<issued, clock, served>>

\* line 147, update_item, and line 159, patch_item:
\* items_db[item_id]["updated_at"] = datetime.now().isoformat()
Touch(t) ==
    /\ running[t].pc \in {147, 159}
    /\ \E now \in clock .. MaxClock :
        /\ clock' = now
        /\ IF KeyError(t)
           THEN Respond(t, ServerError) /\ UNCHANGED items_db
           ELSE /\ items_db' = DictSet(items_db, running[t].id,
                        [Lookup(items_db, running[t].id) EXCEPT !.updated_at = IsoFormat(now)])
                /\ Goto(t, running[t].pc + 1)
                /\ UNCHANGED <<request, response>>
    /\ UNCHANGED <<issued, served>>

\* lines 148 and 160: return items_db[item_id]
ReturnItem(t) ==
    /\ running[t].pc \in {148, 160}
    /\ Respond(t, IF KeyError(t) THEN ServerError
                  ELSE [status |-> 200, body |-> Lookup(items_db, running[t].id)])
    /\ UNCHANGED <<items_db, issued, clock, served>>

\* lines 156-157, patch_item: updates = item.model_dump(exclude_none=True);
\* if updates:
PatchDump(t) ==
    /\ running[t].pc = 156
    /\ LET updates == ModelDump(ItemPatch(running[t].body)) IN
       running' = [running EXCEPT ![t].local = updates,
                                  ![t].pc = IF PatchApplies(updates) THEN 158 ELSE 160]
    /\ UNCHANGED <<request, response, items_db, issued, clock, served>>

\* line 158, patch_item: items_db[item_id].update(updates)
PatchUpdate(t) ==
    /\ running[t].pc = 158
    /\ IF KeyError(t)
       THEN Respond(t, ServerError) /\ UNCHANGED items_db
       ELSE /\ items_db' = DictSet(items_db, running[t].id,
                    DictUpdate(Lookup(items_db, running[t].id), running[t].local))
            /\ Goto(t, 159)
            /\ UNCHANGED <<request, response>>
    /\ UNCHANGED <<issued, clock, served>>

\* lines 168-170, duplicate_item: source = items_db[item_id], now, new_item
DupCopy(t) ==
    /\ running[t].pc = 168
    /\ IF KeyError(t)
       THEN Respond(t, ServerError) /\ UNCHANGED <<issued, clock>>
       ELSE \E new_id \in FreshIds(issued), now \in clock .. MaxClock :
            /\ issued' = issued \cup {new_id}
            /\ clock' = now
            /\ running' = [running EXCEPT
                   ![t].local = DuplicatedItem(Lookup(items_db, running[t].id), new_id, now),
                   ![t].pc = 171]
            /\ UNCHANGED <<request, response>>
    /\ UNCHANGED <<items_db, served>>

\* lines 171-172, duplicate_item: items_db[new_item["id"]] = new_item
DupStore(t) ==
    /\ running[t].pc = 171
    /\ items_db' = DictSet(items_db, running[t].local.id, running[t].local)
    /\ Respond(t, [status |-> 201, body |-> running[t].local])
    /\ UNCHANGED <<issued, clock, served>>

\* line 180, delete_item: del items_db[item_id]
DeleteDel(t) ==
    /\ running[t].pc = 180
    /\ IF KeyError(t)
       THEN Respond(t, ServerError) /\ UNCHANGED items_db
       ELSE items_db' = DictDel(items_db, running[t].id)
            /\ Respond(t, [status |-> 204, body |-> None])
    /\ UNCHANGED <<issued, clock, served>>

NextConc ==
    \E t \in Threads :
        \/ \E req \in ConcRequests : Begin(t, req)
        \/ ListRun(t)
        \/ CreateRun(t)
        \/ CountRun(t)
        \/ DeleteAllRun(t)
        \/ ExistenceCheck(t)
        \/ GetReturn(t)
        \/ PutAssign(t)
        \/ Touch(t)
        \/ ReturnItem(t)
        \/ PatchDump(t)
        \/ PatchUpdate(t)
        \/ DupCopy(t)
        \/ DupStore(t)
        \/ DeleteDel(t)

SpecConc == Init /\ [][NextConc]_vars

----------------------------------------------------------------------------
(* Properties *)

\* the record stored under k
Rec(d, k) == Lookup(d, k)

\* the fields a body gives a value to; null gives none
Supplied(json) == {f \in DOMAIN json : json[f] # None}

\* every entry of d is still in e, under the same key and unchanged
Kept(d, e, keys) == \A k \in keys : HasKey(e, k) /\ Rec(e, k) = Rec(d, k)

PutDone == request'.op = "put" /\ response'.status = 200
PatchDone == request'.op = "patch" /\ response'.status = 200

\* the default of an optional field
Default(f) ==
    CASE f = "active" -> Some(TRUE)
      [] f = "priority" -> Some(0)
      [] OTHER -> None

\* C1: after a successful PUT every optional field the body omits holds its
\* default (description, notes, tags None; active True; priority 0), whatever
\* it held before, and every field the body supplies holds the supplied value.
\* A field the body gives as null holds its default too.
C1_PutReplaces ==
    [][PutDone =>
        LET json == request'.body
            rec == Rec(items_db', request'.id)
        IN  /\ HasKey(items_db, request'.id)
            /\ \A f \in BodyFields \ DOMAIN json : rec[f] = Default(f)
            /\ \A f \in Supplied(json) : rec[f] = json[f]
            /\ \A f \in DOMAIN json \ Supplied(json) : rec[f] = Default(f)]_vars

\* a PUT naming only the name was answered 200 and the item holds the defaults
C1_Witness ==
    /\ request.op = "put"
    /\ response.status = 200
    /\ DOMAIN request.body = {"name"}
    /\ Rec(items_db, request.id).description = None
    /\ Rec(items_db, request.id).active = Some(TRUE)

\* C2 as stated: after a PATCH whose body names at least one field, every
\* named field holds the value the body gives and every other field is as
\* before.
C2_NamedFieldsHoldBody ==
    [][(PatchDone /\ DOMAIN request'.body # {}) =>
        LET json == request'.body
            old == Rec(items_db, request'.id)
            rec == Rec(items_db', request'.id)
        IN  /\ \A f \in DOMAIN json : rec[f] = json[f]
            /\ \A f \in BodyFields \ DOMAIN json : rec[f] = old[f]]_vars

\* C2 amended: after a PATCH whose body names at least one field, every field
\* named with a value other than null holds that value, and every other
\* field, not named or named with null, is as before.
C2_PatchMerges ==
    [][(PatchDone /\ DOMAIN request'.body # {}) =>
        LET json == request'.body
            old == Rec(items_db, request'.id)
            rec == Rec(items_db', request'.id)
        IN  /\ \A f \in Supplied(json) : rec[f] = json[f]
            /\ \A f \in BodyFields \ Supplied(json) : rec[f] = old[f]]_vars

\* a PATCH giving a description and null tags was answered 200 on an item
\* that has tags and notes: the description is the body's, the tags are not
\* null, the notes, which the body does not name, are still there
C2_Witness ==
    /\ request.op = "patch"
    /\ response.status = 200
    /\ "description" \in Supplied(request.body)
    /\ "tags" \in DOMAIN request.body \ Supplied(request.body)
    /\ "notes" \notin DOMAIN request.body
    /\ Rec(items_db, request.id).description = request.body.description
    /\ Rec(items_db, request.id).tags # None
    /\ Rec(items_db, request.id).notes # None

\* C3: a PATCH of a stored item that supplies no field changes nothing in the
\* store, updated_at included, and answers 200 with the item.
C3_EmptyPatchNoOp ==
    [][(request'.op = "patch" /\ HasKey(items_db, request'.id)
            /\ Supplied(request'.body) = {}) =>
        /\ items_db' = items_db
        /\ response'.status = 200
        /\ response'.body = Rec(items_db, request'.id)]_vars

\* a PATCH with the empty body was answered 200 after the clock had moved past
\* the item's updated_at
C3_Witness ==
    /\ request.op = "patch"
    /\ response.status = 200
    /\ DOMAIN request.body = {}
    /\ StrLess(Rec(items_db, request.id).updated_at, IsoFormat(clock))

\* C4: GET, PUT, PATCH, DELETE and duplicate of an id that is not a key of the
\* store answer 404 and leave the store as it was.
C4_AbsentIdNotFound ==
    [][(request'.op \in {"get", "put", "patch", "delete", "duplicate"}
            /\ ~HasKey(items_db, request'.id)) =>
        /\ response'.status = 404
        /\ items_db' = items_db]_vars

\* a duplicate of an absent id was answered 404 while the store held an item
C4_Witness ==
    /\ request.op = "duplicate"
    /\ response.status = 404
    /\ ~HasKey(items_db, request.id)
    /\ items_db # <<>>

\* C5: create stores exactly one new item, under an id that was no key before,
\* with created_at = updated_at; the store grows by one and every item stored
\* before is unchanged.
C5_CreateAddsOne ==
    [][request'.op = "create" =>
        LET new_item == response'.body IN
        /\ response'.status = 201
        /\ ~HasKey(items_db, new_item.id)
        /\ HasKey(items_db', new_item.id)
        /\ Rec(items_db', new_item.id) = new_item
        /\ new_item.created_at = new_item.updated_at
        /\ Len(items_db') = Len(items_db) + 1
        /\ Kept(items_db, items_db', Keys(items_db))]_vars

\* a create was answered while the store already held another item
C5_Witness ==
    /\ request.op = "create"
    /\ response.status = 201
    /\ Len(items_db) = 2
    /\ HasKey(items_db, response.body.id)

\* C6: a duplicate of a stored item adds exactly one item, under an id that
\* differs from the source's and from every stored id; the source and all
\* other items are unchanged and the store grows by one. Afterwards the two
\* are independent: a PUT, PATCH or DELETE of one id changes no other item.
C6_DuplicateIndependent ==
    [][/\ (request'.op = "duplicate" /\ HasKey(items_db, request'.id)) =>
            LET new_item == response'.body IN
            /\ response'.status = 201
            /\ new_item.id # request'.id
            /\ ~HasKey(items_db, new_item.id)
            /\ HasKey(items_db', new_item.id)
            /\ Rec(items_db', new_item.id) = new_item
            /\ Len(items_db') = Len(items_db) + 1
            /\ Kept(items_db, items_db', Keys(items_db))
       /\ request'.op \in {"put", "patch", "delete"} =>
            Kept(items_db, items_db', Keys(items_db) \ {request'.id})]_vars

\* a duplicate was answered 201 and source and copy are both stored
C6_Witness ==
    /\ request.op = "duplicate"
    /\ response.status = 201
    /\ HasKey(items_db, request.id)
    /\ HasKey(items_db, response.body.id)
    /\ Len(items_db) = 2

\* C7: DELETE /items always answers 200 with deleted = the number of items
\* stored just before, and leaves the store empty; a list or a count that
\* follows it returns the empty sequence, respectively 0.
C7_DeleteAllEmpties ==
    [][/\ request'.op = "delete_all" =>
            /\ response'.status = 200
            /\ response'.body.deleted = Len(items_db)
            /\ items_db' = <<>>
       /\ (request.op = "delete_all" /\ request'.op = "list") =>
            response'.status = 200 /\ response'.body = <<>>
       /\ (request.op = "delete_all" /\ request'.op = "count") =>
            response'.body.count = 0]_vars

\* a DELETE /items of a store of two items answered deleted = 2
C7_Witness ==
    /\ request.op = "delete_all"
    /\ response.body.deleted = 2
    /\ items_db = <<>>

\* C8: DELETE of a stored id removes exactly that item: the id is no key any
\* more (a GET that follows answers 404), the store is one smaller and every
\* other item is stored unchanged.
C8_DeleteRemovesOne ==
    [][/\ (request'.op = "delete" /\ HasKey(items_db, request'.id)) =>
            /\ response'.status = 204
            /\ ~HasKey(items_db', request'.id)
            /\ Len(items_db') = Len(items_db) - 1
            /\ Kept(items_db, items_db', Keys(items_db) \ {request'.id})
       /\ (request.op = "delete" /\ response.status = 204
                /\ request'.op = "get" /\ request'.id = request.id) =>
            response'.status = 404]_vars

\* a DELETE was answered 204 and another item is still stored
C8_Witness ==
    /\ request.op = "delete"
    /\ response.status = 204
    /\ Len(items_db) = 1
    /\ ~HasKey(items_db, request.id)

\* C9: every stored item has created_at <= updated_at, as the timestamps are
\* compared (ISO-8601 strings), under a clock that never goes back.
C9_CreatedNotAfterUpdated ==
    \A i \in 1 .. Len(items_db) :
        StrLeq(items_db[i].val.created_at, items_db[i].val.updated_at)

\* an item created on a whole second, whose created_at has no fraction, and
\* updated within that second: the strings differ in length
C9_Witness ==
    \E i \in 1 .. Len(items_db) :
        /\ StrLess(items_db[i].val.created_at, items_db[i].val.updated_at)
        /\ Len(items_db[i].val.created_at) < Len(items_db[i].val.updated_at)

\* C10: as long as an item is stored, no request changes its id or its
\* created_at.
C10_IdAndCreatedAtFixed ==
    [][\A k \in Keys(items_db) \cap Keys(items_db') :
          /\ Rec(items_db', k).id = Rec(items_db, k).id
          /\ Rec(items_db', k).created_at = Rec(items_db, k).created_at]_vars

\* a PUT was answered 200 on an item after its creation tick
C10_Witness ==
    /\ request.op = "put"
    /\ response.status = 200
    /\ Rec(items_db, request.id).created_at # Rec(items_db, request.id).updated_at

\* C11: every store key is the id of the record stored under it, no two
\* records share an id, every stored id was handed out by uuid4, and a key
\* that enters the store was never handed out before: an id that was deleted
\* is not assigned again.
C11_IdsIdentifyOneItem ==
    [][/\ \A i \in 1 .. Len(items_db') : items_db'[i].key = items_db'[i].val.id
       /\ \A i, j \in 1 .. Len(items_db') :
              items_db'[i].val.id = items_db'[j].val.id => i = j
       /\ Keys(items_db') \subseteq issued'
       /\ \A k \in Keys(items_db') \ Keys(items_db) : k \notin issued]_vars

\* an item was created after the item with id 1 had been deleted
C11_Witness ==
    /\ request.op = "create"
    /\ response.status = 201
    /\ 1 \in issued
    /\ ~HasKey(items_db, 1)
    /\ HasKey(items_db, response.body.id)

\* a PUT, or a PATCH that supplies a field, was answered 200
Refreshed == PutDone \/ (PatchDone /\ Supplied(request'.body) # {})

\* no item but the target has another updated_at than before
OthersUpdatedAtKept ==
    \A k \in Keys(items_db) \ {request'.id} :
        HasKey(items_db', k) /\ Rec(items_db', k).updated_at = Rec(items_db, k).updated_at

\* C12 as stated: every successful PUT, and every PATCH that supplies a field,
\* makes the target's updated_at strictly greater and changes no other item's
\* updated_at.
C12_UpdatedAtStrictlyIncreases ==
    [][Refreshed =>
        /\ StrLess(Rec(items_db, request'.id).updated_at,
                   Rec(items_db', request'.id).updated_at)
        /\ OthersUpdatedAtKept]_vars

\* C12 amended: every successful PUT, and every PATCH that supplies a field,
\* sets the target's updated_at to the clock value read during the call: it
\* is never smaller than before, it is strictly greater when the clock has
\* moved on since the previous request, and no other item's updated_at changes.
C12_UpdatedAtFollowsClock ==
    [][Refreshed =>
        LET before == Rec(items_db, request'.id).updated_at
            after == Rec(items_db', request'.id).updated_at
        IN  /\ after = IsoFormat(clock')
            /\ StrLeq(before, after)
            /\ clock' > clock => StrLess(before, after)
            /\ OthersUpdatedAtKept]_vars

\* a PATCH that supplies a field was answered 200 at a later tick than the
\* item's creation, next to another item whose updated_at is the older one
C12_Witness ==
    /\ request.op = "patch"
    /\ response.status = 200
    /\ Supplied(request.body) # {}
    /\ Len(items_db) = 2
    /\ StrLess(Rec(items_db, request.id).created_at, Rec(items_db, request.id).updated_at)
    /\ \E k \in Keys(items_db) :
           StrLess(Rec(items_db, k).updated_at, Rec(items_db, request.id).updated_at)

\* the six fields of a record that a body sets
Content(rec) == [f \in BodyFields |-> rec[f]]

\* the contents a record has between requests: those of a create or PUT
\* body, and those with a PATCH body merged in
SettledContents ==
    LET made == {Content(NewItem(0, ItemCreate(json), 0)) : json \in CreateBodies}
    IN  made \cup {DictUpdate(c, ModelDump(ItemPatch(json))) : c \in made, json \in PatchBodies}

\* C13 as stated: a record a GET or a list returns is never partly written:
\* its fields are those some whole sequence of requests leaves, not a mix of
\* a PUT body and the values from before the PUT.
C13_NoPartialRecordSeen ==
    /\ (request.op = "get" /\ response.status = 200)
           => Content(response.body) \in SettledContents
    /\ (request.op = "list" /\ response.status = 200)
           => \A i \in 1 .. Len(response.body) :
                  Content(response.body[i]) \in SettledContents

\* C14 as stated: a GET, PUT, PATCH, duplicate or DELETE of an id ends in
\* success or in NotFound, whatever other handlers do meanwhile.
C14_SuccessOrNotFound ==
    request.op \in {"get", "put", "patch", "duplicate", "delete"}
        => response.status \in {200, 201, 204, 404}

\* GET /items was answered
Listed == request.op = "list"

\* the query gives no parameter outside params
OnlyParams(q, params) == \A p \in DOMAIN q \ params : q[p] = None

\* C15 as stated: whatever the store holds and whatever the query, GET /items
\* is answered 200 with a sequence of stored items.
C15_ListNeverFails ==
    Listed =>
        /\ response.status = 200
        /\ \A i \in 1 .. Len(response.body) :
               \E j \in 1 .. Len(items_db) : response.body[i] = items_db[j].val

\* the names a tags parameter requests: the pieces between commas, stripped
RequestedTags(names) == {Strip(Split(names)[i]) : i \in 1 .. Len(Split(names))}

\* the item carries at least one of the requested tags
HasRequestedTag(item, names) ==
    /\ item.tags # None
    /\ \E i \in 1 .. Len(item.tags[1]) : item.tags[1][i] \in RequestedTags(names)

\* C16 as stated: a list with a non-empty tags parameter returns exactly the
\* items that carry at least one of the requested names, each name stripped;
\* an item with none of them, or with no tags at all, is left out.
C16_TagFilterIsUnion ==
    (Listed /\ request.body.tags # None /\ request.body.tags # Some(<<>>)
            /\ OnlyParams(request.body, {"tags"})) =>
        /\ response.status = 200
        /\ response.body = SelectSeq(Values(items_db),
               LAMBDA item : HasRequestedTag(item, request.body.tags[1]))

\* the text fields of an item that hold a string
TextFields(item) == {f \in {"name", "description", "notes"} : item[f] # None}

\* needle is a substring of hay, letter case aside
ContainsIgnoringCase(needle, hay) == Contains(Lower(needle), Lower(hay))

\* C17: a list with a search parameter alone returns exactly the items, in
\* store order, of which name, description or notes holds the search string
\* as a substring, letter case aside; a description or notes that is None
\* matches nothing.
C17_SearchIsSubstring ==
    (Listed /\ request.body.search # None /\ OnlyParams(request.body, {"search"})) =>
        /\ response.status = 200
        /\ response.body = SelectSeq(Values(items_db),
               LAMBDA item : \E f \in TextFields(item) :
                   ContainsIgnoringCase(request.body.search[1], item[f][1]))

\* "a" was searched: an item is returned that matches in its notes alone,
\* where the letter is next to a capital, and another item is left out
C17_Witness ==
    /\ Listed
    /\ request.body.search = Some(<<97>>)
    /\ OnlyParams(request.body, {"search"})
    /\ Len(response.body) < Len(items_db)
    /\ \E i \in 1 .. Len(response.body) :
           /\ ~ContainsIgnoringCase(<<97>>, response.body[i].name[1])
           /\ response.body[i].description = None
           /\ Contains(<<66, 97>>, response.body[i].notes[1])

\* GET /items with sort=asc or sort=desc and neither offset nor limit was
\* answered with a sequence
SortedList ==
    /\ Listed
    /\ response.status = 200
    /\ request.body.sort \in {Some("asc"), Some("desc")}
    /\ request.body.offset = None
    /\ request.body.limit = None

\* what the same query returns without its sort parameter
Unsorted == ListResult(items_db, [request.body EXCEPT !.sort = None])

\* the key the claim names: sort_by when it is one of the four, else created_at
ChosenKey ==
    IF request.body.sort_by \in {Some("name"), Some("created_at"),
                                 Some("updated_at"), Some("priority")}
    THEN request.body.sort_by[1] ELSE "created_at"

\* the place of item x in s
Place(x, s) == CHOOSE i \in 1 .. Len(s) : s[i] = x

\* C18: with sort=asc the result is non-decreasing in the chosen key, with
\* sort=desc non-increasing; the result holds the items of the unsorted
\* result, each once.
C18_SortOrders ==
    SortedList =>
        /\ \A i, j \in 1 .. Len(response.body) :
               i < j => IF request.body.sort = Some("asc")
                        THEN ~KeyLess(response.body[j], response.body[i], ChosenKey)
                        ELSE ~KeyLess(response.body[i], response.body[j], ChosenKey)
        /\ Len(response.body) = Len(Unsorted)
        /\ \A i \in 1 .. Len(Unsorted) : \E j \in 1 .. Len(response.body) :
               response.body[j] = Unsorted[i]

\* a descending sort with a sort_by that is no key moved the items: the
\* result is in descending creation order and not in store order
C18_Witness ==
    /\ SortedList
    /\ request.body.sort = Some("desc")
    /\ request.body.sort_by = Some("id")
    /\ Len(response.body) = 3
    /\ response.body # Unsorted
    /\ StrLess(response.body[3].created_at, response.body[1].created_at)

\* C19: items with equal keys are in the sorted result in the order they had
\* before the sort, for asc and for desc.
C19_SortIsStable ==
    SortedList =>
        \A i, j \in 1 .. Len(response.body) :
            (/\ i < j
             /\ ~KeyLess(response.body[i], response.body[j], ChosenKey)
             /\ ~KeyLess(response.body[j], response.body[i], ChosenKey))
            => Place(response.body[i], Unsorted) < Place(response.body[j], Unsorted)

\* a descending sort by priority moved an item to the front and left two
\* items of equal priority in their earlier order
C19_Witness ==
    /\ SortedList
    /\ request.body.sort = Some("desc")
    /\ request.body.sort_by = Some("priority")
    /\ Len(response.body) = 3
    /\ response.body[1] = Unsorted[3]
    /\ response.body[2].priority = response.body[3].priority
    /\ response.body[2] = Unsorted[1]

\* what the same query returns without offset and limit
Unpaged == ListResult(items_db, [request.body EXCEPT !.offset = None, !.limit = None])

\* C20: with offset >= 0 and limit >= 0 the result is the elements at the
\* 0-based positions offset .. offset+limit-1 of the filtered and sorted
\* sequence, as far as they exist; a missing offset counts as 0, a missing
\* limit as no limit; an offset at or beyond the end gives the empty result.
C20_PaginationIsSlice ==
    (/\ Listed
     /\ response.status = 200
     /\ request.body.offset = None \/ request.body.offset[1] >= 0
     /\ request.body.limit = None \/ request.body.limit[1] >= 0) =>
        LET first == IF request.body.offset = None THEN 0 ELSE request.body.offset[1]
            want == IF request.body.limit = None THEN Len(Unpaged) ELSE request.body.limit[1]
            rest == IF Len(Unpaged) > first THEN Len(Unpaged) - first ELSE 0
            count == IF want < rest THEN want ELSE rest
        IN  /\ response.body = [i \in 1 .. count |-> Unpaged[first + i]]
            /\ first >= Len(Unpaged) => response.body = <<>>

\* offset=1 and limit=1 on a sorted list of three: the second item alone
C20_Witness ==
    /\ Listed
    /\ request.body.offset = Some(1)
    /\ request.body.limit = Some(1)
    /\ request.body.sort = Some("desc")
    /\ Len(Unpaged) = 3
    /\ response.body = <<Unpaged[2]>>

\* C21: a list with priority, min_priority or max_priority, and nothing
\* else, returns exactly the items, in store order, whose priority equals
\* priority, is >= min_priority and is <= max_priority, each condition
\* counting when its parameter is given; 0 is a given value.
C21_PriorityFiltersAnd ==
    (/\ Listed
     /\ OnlyParams(request.body, {"priority", "min_priority", "max_priority"})
     /\ ~OnlyParams(request.body, {})) =>
        /\ response.status = 200
        /\ response.body = SelectSeq(Values(items_db), LAMBDA item :
               /\ request.body.priority # None
                      => item.priority[1] = request.body.priority[1]
               /\ request.body.min_priority # None
                      => item.priority[1] >= request.body.min_priority[1]
               /\ request.body.max_priority # None
                      => item.priority[1] <= request.body.max_priority[1])

\* max_priority=0 with min_priority=0 kept the items of priority 0 and
\* dropped another one
C21_Witness ==
    /\ Listed
    /\ request.body.min_priority = Some(0)
    /\ request.body.max_priority = Some(0)
    /\ request.body.priority = None
    /\ response.body # <<>>
    /\ Len(response.body) < Len(items_db)
    /\ \A i \in 1 .. Len(response.body) : response.body[i].priority = Some(0)

\* GET /items with created_after or created_before, and nothing else
DateListed ==
    /\ Listed
    /\ OnlyParams(request.body, {"created_after", "created_before"})
    /\ ~OnlyParams(request.body, {})

\* C22 as stated: the list returns exactly the items with
\* created_after <= created_at, when created_after is given, and
\* created_at <= created_before, when created_before is given.
C22_DateBoundsApply ==
    DateListed =>
        /\ response.status = 200
        /\ response.body = SelectSeq(Values(items_db), LAMBDA item :
               /\ request.body.created_after # None
                      => StrLeq(request.body.created_after[1], item.created_at)
               /\ request.body.created_before # None
                      => StrLeq(item.created_at, request.body.created_before[1]))

\* C22 amended: the same for bounds that are not the empty string, an item
\* whose created_at equals a bound included; a bound given as the empty
\* string is ignored like a missing one.
C22_NonEmptyDateBoundsApply ==
    DateListed =>
        /\ response.status = 200
        /\ response.body = SelectSeq(Values(items_db), LAMBDA item :
               /\ request.body.created_after \notin {None, Some(<<>>)}
                      => \/ request.body.created_after[1] = item.created_at
                         \/ StrLess(request.body.created_after[1], item.created_at)
               /\ request.body.created_before \notin {None, Some(<<>>)}
                      => \/ request.body.created_before[1] = item.created_at
                         \/ StrLess(item.created_at, request.body.created_before[1]))

\* both bounds are the created_at of tick 1: the items created then are
\* returned, an earlier or later one is not
C22_Witness ==
    /\ Listed
    /\ request.body.created_after = Some(IsoFormat(1))
    /\ request.body.created_before = Some(IsoFormat(1))
    /\ response.body # <<>>
    /\ Len(response.body) < Len(items_db)
    /\ \A i \in 1 .. Len(response.body) : response.body[i].created_at = IsoFormat(1)

\* C23: the record a duplicate answers and stores has the name, description,
\* notes, tags, active and priority the source had when the call was made,
\* whatever they are; its created_at and updated_at are equal and not
\* smaller than the source's created_at.
C23_DuplicateCopiesFields ==
    [][(request'.op = "duplicate" /\ response'.status = 201) =>
        LET source == Rec(items_db, request'.id)
            copy == response'.body
        IN  /\ \A f \in BodyFields : copy[f] = source[f]
            /\ Rec(items_db', copy.id) = copy
            /\ copy.created_at = copy.updated_at
            /\ StrLeq(source.created_at, copy.created_at)]_vars

\* an inactive item with tags was duplicated at a later tick than its creation
C23_Witness ==
    /\ request.op = "duplicate"
    /\ response.status = 201
    /\ response.body.active = Some(FALSE)
    /\ response.body.tags # None
    /\ HasKey(items_db, request.id)
    /\ Rec(items_db, request.id).active = Some(FALSE)
    /\ StrLess(Rec(items_db, request.id).created_at, response.body.created_at)

\* C24: the item a create stores has, for every optional field the body
\* leaves out or gives as null, the default (active true, priority 0,
\* description, notes and tags None), and for every field the body gives a
\* value exactly that value: active false stays false, a tag list keeps its
\* order and its duplicates.
C24_CreateFillsDefaults ==
    [][request'.op = "create" =>
        LET json == request'.body
            rec == Rec(items_db', response'.body.id)
        IN  /\ response'.status = 201
            /\ rec = response'.body
            /\ \A f \in BodyFields \ Supplied(json) : rec[f] = Default(f)
            /\ \A f \in Supplied(json) : rec[f] = json[f]]_vars

\* a create whose body gives every optional field as null stored the
\* defaults, next to an item created with active false and tags w, u, w
C24_Witness ==
    /\ request.op = "create"
    /\ "active" \in DOMAIN request.body
    /\ Supplied(request.body) = {"name"}
    /\ response.body.active = Some(TRUE)
    /\ response.body.priority = Some(0)
    /\ response.body.tags = None
    /\ \E k \in Keys(items_db) :
           /\ Rec(items_db, k).active = Some(FALSE)
           /\ Rec(items_db, k).tags = Some(<< <<119>>, <<117>>, <<119>> >>)

\* C25 as stated: every stored item has a name, and it is not the empty
\* string.
C25_NameNonEmpty ==
    \A i \in 1 .. Len(items_db) : items_db[i].val.name \notin {None, Some(<<>>)}

\* the body without the fields it gives as null
WithoutNulls(json) == [f \in Supplied(json) |-> json[f]]

\* C27: a successful PATCH leaves the item as the same PATCH without its
\* null fields would: a field given as null keeps its value, so description,
\* notes and tags are never reset to None; when every field of the body is
\* null the item is unchanged, updated_at included; a field given a value,
\* false or 0 as well, holds it afterwards and updated_at is the clock value
\* read by the call.
C27_PatchNullIsAbsent ==
    [][PatchDone =>
        LET json == request'.body
            before == Rec(items_db, request'.id)
            after == Rec(items_db', request'.id)
        IN  /\ \A f \in DOMAIN json \ Supplied(json) : after[f] = before[f]
            /\ \A f \in {"description", "notes", "tags"} :
                   before[f] # None => after[f] # None
            /\ Supplied(json) = {} => after = before
            /\ Supplied(json) # {} =>
                   /\ after = [DictUpdate(before, WithoutNulls(json))
                                  EXCEPT !.updated_at = IsoFormat(clock')]
                   /\ \A f \in Supplied(json) : after[f] = json[f]]_vars

\* a PATCH of priority 0 next to a null description was answered at a later
\* tick: priority went from 1 to 0, the description stayed, updated_at moved
C27_Witness ==
    /\ request.op = "patch"
    /\ response.status = 200
    /\ request.body = [description |-> None, priority |-> Some(0)]
    /\ response.body.priority = Some(0)
    /\ response.body.description = Some(<<97, 66>>)
    /\ StrLess(response.body.created_at, response.body.updated_at)

\* GET /items with sort=asc or sort=desc, no sort_by, and at most a limit
\* that is not negative
CreationSorted ==
    /\ Listed
    /\ request.body.sort \in {Some("asc"), Some("desc")}
    /\ OnlyParams(request.body, {"sort", "limit"})
    /\ request.body.limit = None \/ request.body.limit[1] >= 0

\* the first elements of s, as many as the query's limit allows
Limited(s) ==
    IF request.body.limit = None \/ request.body.limit[1] >= Len(s) THEN s
    ELSE SubSeq(s, 1, request.body.limit[1])

\* the sequence s backwards
Reversed(s) == [i \in 1 .. Len(s) |-> s[Len(s) + 1 - i]]

KeySeq(d) == [i \in 1 .. Len(d) |-> d[i].key]

\* C28: a list whose sort is absent or neither asc nor desc ignores sort_by
\* and returns the items in store order; that order is insertion order: a
\* PUT or PATCH leaves every key at its place, a create or duplicate puts
\* the new key last.
C28_UnsortedIsInsertionOrder ==
    [][/\ (/\ request'.op = "list"
           /\ request'.body.sort \notin {Some("asc"), Some("desc")}
           /\ OnlyParams(request'.body, {"sort", "sort_by"})) =>
              /\ response'.status = 200
              /\ response'.body = Values(items_db)
       /\ (request'.op \in {"put", "patch"} /\ response'.status = 200) =>
              KeySeq(items_db') = KeySeq(items_db)
       /\ (request'.op \in {"create", "duplicate"} /\ response'.status = 201) =>
              KeySeq(items_db') = Append(KeySeq(items_db), response'.body.id)]_vars

\* sort=up&sort_by=priority was listed after the first of two items had been
\* written at a later tick: it is still first, though its priority is higher
C28_Witness ==
    /\ request.op = "list"
    /\ request.body.sort = Some("up")
    /\ request.body.sort_by = Some("priority")
    /\ Len(response.body) = 2
    /\ response.body = Values(items_db)
    /\ response.body[1].priority[1] > response.body[2].priority[1]
    /\ StrLess(response.body[1].created_at, response.body[1].updated_at)
    /\ response.body[2].created_at = response.body[2].updated_at

====
